---- MODULE Spec2Model ----
(***************************************************************************)
(* SM2 signatures (src/sm2_base.py, src/sm2_optimized.py), the misuse      *)
(* scenarios (src/sm2_misuse.py) and the forgery demonstration             *)
(* (src/satoshi_forgery.py).                                               *)
(*                                                                         *)
(* The domain parameters are scaled from the 256-bit curve of the source   *)
(* to a curve of the same shape over a small field: a prime modulus p, a   *)
(* generator of prime order n with n < p (cofactor 1), and a digest wider  *)
(* than n (digests of HashLen bytes of ByteBits bits; 2^(HashLen*ByteBits) *)
(* > p > n), so that e >= n and x1 >= n both happen as they do in the      *)
(* source.  Every function is the source's algorithm run on those numbers. *)
(*                                                                         *)
(* SM3 is a collaborator outside the repository: it is an unknown function *)
(* from byte strings to digests, built up as it is queried (variable sm3). *)
(*                                                                         *)
(* A Python exception is a result of its own: a point-valued function      *)
(* yields either None (<<>>), a point <<x, y>> or <<"ValueError">> (a      *)
(* 1-tuple naming the exception); calls yield [raised, value] records.     *)
(***************************************************************************)
EXTENDS Integers, Sequences, FiniteSets, TLC

VARIABLES
    opt,      \* module sm2_optimized: [status, G_TABLE]
    sm3,      \* the digests SM3 has returned so far: byte string -> digest bytes
    key,      \* <<d, P>> of generate_key_pair, <<>> before
    pc,       \* where the caller is
    inp,      \* the inputs of the call in progress (sign's M, Z, e; a pure call's arguments)
    sig,      \* the signature sign() returned, with its inputs
    ret       \* the last call and its outcome

vars == <<opt, sm3, key, pc, inp, sig, ret>>

---------------------------------------------------------------------------
(* Domain parameters, sm2_base.py:14-19, scaled.                           *)
p == 13
a == 11
b == 7
n == 11
Gx == 6
Gy == 4

(* A byte has ByteBits bits and a digest HashLen bytes (8 and 32 in the    *)
(* source).                                                                *)
ByteBits == 2
HashLen == 2

(* Bounds of the model.                                                    *)
MaxByte == 2       \* messages are the byte strings <<1>> .. <<MaxByte>>
MaxScalar == 24    \* scalars given to point_multiply: 0..MaxScalar

None == <<>>
G == <<Gx, Gy>>
ValueError == <<"ValueError">>
IsExc(v) == Len(v) = 1

Pow2(i) == 2 ^ i
ByteVals == 0 .. (Pow2(ByteBits) - 1)
Digests == [1 .. HashLen -> ByteVals]

(* int.from_bytes(bs, byteorder='big')                                     *)
RECURSIVE int_from_bytes(_)
int_from_bytes(bs) ==
    IF Len(bs) = 0 THEN 0
    ELSE int_from_bytes(SubSeq(bs, 1, Len(bs) - 1)) * Pow2(ByteBits) + bs[Len(bs)]

(* x.to_bytes(len, byteorder='big'), for 0 <= x < 2^(len*ByteBits)        *)
to_bytes(x, len) ==
    [i \in 1 .. len |-> (x \div Pow2(ByteBits * (len - i))) % Pow2(ByteBits)]

---------------------------------------------------------------------------
(* sm2_base.py: field and curve arithmetic                                 *)

RECURSIVE extended_gcd(_, _)
extended_gcd(x, y) ==
    IF x = 0 THEN <<y, 0, 1>>
    ELSE LET r == extended_gcd(y % x, x)
         IN  <<r[1], r[3] - (y \div x) * r[2], r[2]>>

(* mod_inverse raises ValueError when gcd(x, m) # 1 ...                    *)
mod_inverse_raises(x, m) == extended_gcd(x, m)[1] # 1
(* ... and returns x^-1 mod m otherwise.                                   *)
mod_inverse(x, m) == extended_gcd(x, m)[2] % m

(* Mutant: the case p1 = -p2 is not taken out before the slope.            *)
base_point_add_no_inverse_case(p1, p2) ==
    IF p1 = None THEN p2
    ELSE IF p2 = None THEN p1
    ELSE LET x1 == p1[1]
             y1 == p1[2]
             x2 == p2[1]
             y2 == p2[2]
             den == IF p1 # p2 THEN (x2 - x1) % p ELSE (2 * y1) % p
             num == IF p1 # p2 THEN (y2 - y1) % p ELSE (3 * x1 * x1 + a) % p
         IN  IF mod_inverse_raises(den, p) THEN ValueError
             ELSE LET k  == (num * mod_inverse(den, p)) % p
                      x3 == (k * k - x1 - x2) % p
                      y3 == (k * (x1 - x3) - y1) % p
                  IN  <<x3, y3>>

base_point_add(p1, p2) ==
    IF p1 = None THEN p2
    ELSE IF p2 = None THEN p1
    ELSE LET x1 == p1[1]
             y1 == p1[2]
             x2 == p2[1]
             y2 == p2[2]
         IN  IF x1 = x2 /\ (y1 + y2) % p = 0 THEN None
             ELSE LET den == IF p1 # p2 THEN (x2 - x1) % p ELSE (2 * y1) % p
                      num == IF p1 # p2 THEN (y2 - y1) % p ELSE (3 * x1 * x1 + a) % p
                  IN  IF mod_inverse_raises(den, p) THEN ValueError
                      ELSE LET k  == (num * mod_inverse(den, p)) % p
                               x3 == (k * k - x1 - x2) % p
                               y3 == (k * (x1 - x3) - y1) % p
                           IN  <<x3, y3>>

(* The while loop of point_multiply: one iteration per call.               *)
RECURSIVE base_multiply_loop(_, _, _)
base_multiply_loop(result, current, k) ==
    IF k <= 0 THEN result
    ELSE LET r1 == IF k % 2 = 1 THEN base_point_add(result, current) ELSE result
         IN  IF IsExc(r1) THEN r1
             ELSE LET c1 == base_point_add(current, current)
                  IN  IF IsExc(c1) THEN c1
                      ELSE base_multiply_loop(r1, c1, k \div 2)

(* Mutant: the accumulator starts at the point instead of None.            *)
base_point_multiply_from_p(pt, k) == base_multiply_loop(pt, pt, k)

base_point_multiply(pt, k) == base_multiply_loop(None, pt, k)

(* The curve equation, tests/test_all.py:47-50.                            *)
OnCurve(pt) ==
    (pt[2] * pt[2]) % p = (pt[1] * pt[1] * pt[1] + a * pt[1] + b) % p
CurvePoints == {pt \in (0 .. p - 1) \X (0 .. p - 1) : OnCurve(pt)}

---------------------------------------------------------------------------
(* Call outcomes.                                                          *)
Ok(v) == [raised |-> "", value |-> v]
Raise(e) == [raised |-> e, value |-> None]

---------------------------------------------------------------------------
(* sm2_base.py: sign and verify.  e is int.from_bytes(sm3_hash(z +         *)
(* message)); the callers below draw it from SM3.                          *)

Continue == <<"continue">>

(* Mutant: the loop does not go round again when r + k = n.                *)
base_sign_step_no_rk(d, e, k) ==
    LET kG == base_point_multiply(G, k)
    IN  IF kG = None THEN Continue
        ELSE LET r == (e + kG[1]) % n
                 s == (mod_inverse(1 + d, n) * (k - r * d)) % n
             IN  IF r = 0 \/ s = 0 THEN Continue ELSE <<r, s>>

(* One iteration of sign's while loop with the nonce k drawn: Continue,    *)
(* the signature <<r, s>>, or the exception of mod_inverse.                *)
base_sign_step(d, e, k) ==
    LET kG == base_point_multiply(G, k)
    IN  IF kG = None THEN Continue
        ELSE IF IsExc(kG) THEN kG
        ELSE LET r == (e + kG[1]) % n
             IN  IF r = 0 \/ r + k = n THEN Continue
                 ELSE IF mod_inverse_raises(1 + d, n) THEN ValueError
                 ELSE LET s == (mod_inverse(1 + d, n) * (k - r * d)) % n
                      IN  IF s = 0 THEN Continue ELSE <<r, s>>

(* The range check of verify: before it, nothing is hashed.                *)
InRange(r, s) == 1 <= r /\ r <= n - 1 /\ 1 <= s /\ s <= n - 1

(* Mutant: r and s are not checked to lie in [1, n-1].                     *)
base_verify_no_range(public_key, e, r, s) ==
    LET t == (r + s) % n
    IN  IF t = 0 THEN Ok(FALSE)
        ELSE LET sG == base_point_multiply(G, s)
                 tP == base_point_multiply(public_key, t)
             IN  IF sG = None \/ tP = None THEN Ok(FALSE)
                 ELSE LET x1y1 == base_point_add(sG, tP)
                      IN  IF x1y1 = None THEN Ok(FALSE)
                          ELSE Ok((e + x1y1[1]) % n = r)

base_verify(public_key, e, r, s) ==
    IF ~InRange(r, s) THEN Ok(FALSE)
    ELSE LET t == (r + s) % n
         IN  IF t = 0 THEN Ok(FALSE)
             ELSE LET sG == base_point_multiply(G, s)
                      tP == base_point_multiply(public_key, t)
                  IN  IF IsExc(sG) THEN Raise(sG[1])
                      ELSE IF IsExc(tP) THEN Raise(tP[1])
                      ELSE IF sG = None \/ tP = None THEN Ok(FALSE)
                      ELSE LET x1y1 == base_point_add(sG, tP)
                           IN  IF IsExc(x1y1) THEN Raise(x1y1[1])
                               ELSE IF x1y1 = None THEN Ok(FALSE)
                               ELSE Ok((e + x1y1[1]) % n = r)

TypeError == <<"TypeError">>
IndexError == <<"IndexError">>

---------------------------------------------------------------------------
(* sm2_optimized.py                                                        *)

(* The line of each top-level def of the module: a name is bound in the    *)
(* module's namespace once the module body has run past its def.           *)
OptDefLine ==
    [precompute_g_table |-> 18, point_double |-> 31, point_add |-> 50,
     point_multiply |-> 80, calculate_z |-> 138, sign |-> 156, verify |-> 186]
OptBoundAt(line) == {nm \in DOMAIN OptDefLine : OptDefLine[nm] < line}

(* G_TABLE = precompute_g_table() is the statement at this line, and the   *)
(* table has TableSize entries (256 in the source: the bit length of n).   *)
GTableLine == 29
TableSize == 4

(* point_double(p): its parameter is named p, so the modulus in            *)
(* "(3 * x1 * x1 + a) % p" is the point itself and int % tuple raises      *)
(* TypeError for every point but None.                                     *)
opt_point_double(pt) == IF pt = None THEN None ELSE TypeError

opt_point_add(p1, p2) ==
    IF p1 = None THEN p2
    ELSE IF p2 = None THEN p1
    ELSE LET x1 == p1[1]
             y1 == p1[2]
             x2 == p2[1]
             y2 == p2[2]
         IN  IF x1 = x2 /\ (y1 + y2) % p = 0 THEN None
             ELSE IF p1 = p2 THEN opt_point_double(p1)
             ELSE LET dx == (x2 - x1) % p
                      dy == (y2 - y1) % p
                  IN  IF mod_inverse_raises(dx, p) THEN ValueError
                      ELSE LET k  == (dy * mod_inverse(dx, p)) % p
                               x3 == (k * k - x1 - x2) % p
                               y3 == (k * (x1 - x3) - y1) % p
                           IN  <<x3, y3>>

(* The for loop of precompute_g_table, entered with table[0..i-1] filled.  *)
RECURSIVE g_table_loop(_, _, _)
g_table_loop(table, current, i) ==
    IF i >= TableSize THEN Ok(table)
    ELSE LET nxt == opt_point_double(current)
         IN  IF IsExc(nxt) THEN Raise(nxt[1])
             ELSE g_table_loop(Append(table, nxt), nxt, i + 1)

(* precompute_g_table() run when the names in bound are bound: the call of *)
(* point_double in the first iteration looks the name up in the module.    *)
precompute_g_table(bound) ==
    IF TableSize > 1 /\ "point_double" \notin bound THEN Raise("NameError")
    ELSE g_table_loop(<<G>>, G, 1)

(* import src.sm2_optimized: a loaded module is reused, otherwise the      *)
(* module body runs; an exception leaves the module unloaded (failed).     *)
import_sm2_optimized(o) ==
    IF o.status = "loaded" THEN [raised |-> "", module |-> o]
    ELSE LET t == precompute_g_table(OptBoundAt(GTableLine))
         IN  IF t.raised # ""
             THEN [raised |-> t.raised,
                   module |-> [status |-> "failed", G_TABLE |-> <<>>]]
             ELSE [raised |-> "",
                   module |-> [status |-> "loaded", G_TABLE |-> t.value]]

Bit(k, i) == (k \div Pow2(i)) % 2

RECURSIVE bit_length(_)
bit_length(k) == IF k <= 0 THEN 0 ELSE 1 + bit_length(k \div 2)

(* point_multiply, the branch for p == (Gx, Gy): G_TABLE, LSB first.       *)
RECURSIVE opt_g_loop(_, _, _, _)
opt_g_loop(table, result, k, current_bit) ==
    IF k <= 0 THEN result
    ELSE IF k % 2 = 1
         THEN IF current_bit + 1 > Len(table) THEN IndexError
              ELSE LET r1 == IF result = None THEN table[current_bit + 1]
                             ELSE opt_point_add(result, table[current_bit + 1])
                   IN  IF IsExc(r1) THEN r1
                       ELSE opt_g_loop(table, r1, k \div 2, current_bit + 1)
         ELSE opt_g_loop(table, result, k \div 2, current_bit + 1)

window_size == 4

(* The window table: table[1] = p, then table[i] and table[i + 1] for      *)
(* i = 2, 4, ..                                                            *)
RECURSIVE window_table_loop(_, _, _)
window_table_loop(table, pt, i) ==
    IF i >= Pow2(window_size) THEN table
    ELSE LET even == opt_point_double(table[i \div 2])
         IN  IF IsExc(even) THEN even
             ELSE LET odd == opt_point_add(even, pt)
                  IN  IF IsExc(odd) THEN odd
                      ELSE window_table_loop(
                               [table EXCEPT ![i] = even, ![i + 1] = odd], pt, i + 2)

(* bits: the window_size bits of k from bit i down, zero where i - j < 0.  *)
RECURSIVE window_bits(_, _, _, _)
window_bits(k, i, j, bits) ==
    IF j >= window_size THEN bits
    ELSE window_bits(k, i, j + 1,
                     IF i - j >= 0 THEN bits * 2 + Bit(k, i - j) ELSE bits * 2)

(* The while loop of the windowed branch.                                  *)
RECURSIVE opt_window_loop(_, _, _, _)
opt_window_loop(table, result, k, i) ==
    IF i < 0 THEN result
    ELSE LET hit == Bit(k, i) = 1
             entry == table[window_bits(k, i, 0, 0)]
             r1 == IF ~hit THEN result
                   ELSE IF result = None THEN entry
                   ELSE opt_point_add(result, entry)
             i1 == IF hit THEN i - window_size ELSE i - 1
         IN  IF IsExc(r1) THEN r1
             ELSE LET r2 == IF i1 >= 0 /\ r1 # None THEN opt_point_double(r1) ELSE r1
                  IN  IF IsExc(r2) THEN r2
                      ELSE opt_window_loop(table, r2, k, i1)

(* point_multiply(p, k) of the loaded module, whose G_TABLE is gtable.     *)
opt_point_multiply(gtable, pt, k) ==
    IF pt = None \/ k = 0 THEN None
    ELSE IF pt = G THEN opt_g_loop(gtable, None, k, 0)
    ELSE LET t0 == [i \in 0 .. (Pow2(window_size) - 1) |-> IF i = 1 THEN pt ELSE None]
             table == window_table_loop(t0, pt, 2)
         IN  IF DOMAIN table = 1 .. 1 THEN table
             ELSE opt_window_loop(table, None, k, bit_length(k) - 1)

---------------------------------------------------------------------------
(* The state before any call.                                              *)
Unloaded == [status |-> "unloaded", G_TABLE |-> <<>>]
NoCall == [op |-> "", raised |-> "", value |-> None]

(* The outcome of a call that returns a point or raises.                   *)
PointOutcome(v) == IF IsExc(v) THEN Raise(v[1]) ELSE Ok(v)
Returned(op, out) == [op |-> op, raised |-> out.raised, value |-> out.value]

---------------------------------------------------------------------------
(* SpecPoints: the point operations as pure functions of drawn inputs.     *)

PointInputs == CurvePoints \cup {None}

PointsInit ==
    /\ opt = Unloaded
    /\ sm3 = <<>>
    /\ key = <<>>
    /\ pc = "points"
    /\ inp \in [pt : PointInputs, q : PointInputs, k : 0 .. MaxScalar]
    /\ sig = <<>>
    /\ ret = NoCall

(* sm2_base.point_add(pt, q)                                               *)
BasePointAdd ==
    /\ pc = "points"
    /\ ret' = Returned("base.point_add", PointOutcome(base_point_add(inp.pt, inp.q)))
    /\ UNCHANGED <<opt, sm3, key, pc, inp, sig>>

(* sm2_base.point_multiply(pt, k)                                          *)
BasePointMultiply ==
    /\ pc = "points"
    /\ ret' = Returned("base.point_multiply",
                       PointOutcome(base_point_multiply(inp.pt, inp.k)))
    /\ UNCHANGED <<opt, sm3, key, pc, inp, sig>>

(* from src.sm2_optimized import point_multiply; point_multiply(pt, k)     *)
OptPointMultiply ==
    /\ pc = "points"
    /\ LET m == import_sm2_optimized(opt)
       IN  /\ opt' = m.module
           /\ ret' = Returned("opt.point_multiply",
                         IF m.raised # "" THEN Raise(m.raised)
                         ELSE PointOutcome(
                                  opt_point_multiply(m.module.G_TABLE, inp.pt, inp.k)))
    /\ UNCHANGED <<sm3, key, pc, inp, sig>>

PointsNext == BasePointAdd \/ BasePointMultiply \/ OptPointMultiply

SpecPoints == PointsInit /\ [][PointsNext]_vars

(* C3: for every point on the curve and every scalar k >= 0,               *)
(* sm2_optimized.point_multiply returns what sm2_base.point_multiply       *)
(* returns, k.P.  (The original claim; the code raises instead.)           *)
C3_CrossImplementation ==
    ret.op = "opt.point_multiply" =>
        /\ ret.raised = ""
        /\ ret.value = base_point_multiply(inp.pt, inp.k)

(* C4: for every point P on the curve but the identity, sm2_base's         *)
(* point_multiply(P, 2) is point_add(P, P), point_multiply(P, 3) is        *)
(* point_add(P, point_multiply(P, 2)), and point_multiply(G, n) is None.   *)
C4_GroupConsistency ==
    (ret.op = "base.point_multiply" /\ inp.pt # None) =>
        /\ ret.raised = ""
        /\ inp.k = 2 => ret.value = base_point_add(inp.pt, inp.pt)
        /\ inp.k = 3 =>
               ret.value = base_point_add(inp.pt, base_point_multiply(inp.pt, 2))
        /\ (inp.pt = G /\ inp.k = n) => ret.value = None

C4_Witness ==
    /\ ret.op = "base.point_multiply"
    /\ inp.pt \in CurvePoints \ {G}
    /\ inp.k = 3
    /\ ret.value \in CurvePoints

---------------------------------------------------------------------------
(* Spec: a caller of the library.  generate_key_pair, then sign, then one  *)
(* verify of the signature as signed or with one of message, Z, r, s       *)
(* replaced.                                                               *)

Messages == {<<i>> : i \in 1 .. MaxByte}
ZValues == {<<1>>, <<2>>}
(* The integers a caller hands to verify as r or s: [1, n-1] and beyond.   *)
SigInts == -1 .. n + 1

(* The e of a call that returned before hashing.                          *)
NotHashed == -1

(* sm3_hash(data) returning dg: SM3 is a function, so a byte string it has *)
(* hashed before hashes to the same digest.                                *)
Hashes(tab, data, dg) == data \in DOMAIN tab => tab[data] = dg
Hashed(tab, data, dg) ==
    [x \in DOMAIN tab \cup {data} |-> IF x = data THEN dg ELSE tab[x]]

Init ==
    /\ opt = Unloaded
    /\ sm3 = <<>>
    /\ key = <<>>
    /\ pc = "start"
    /\ inp = <<>>
    /\ sig = <<>>
    /\ ret = NoCall

(* Mutant: the private key is drawn from 0 .. n.                            *)
GenerateKeyPair_any_d ==
    /\ pc = "start"
    /\ \E d \in 0 .. n :
           LET P == base_point_multiply(G, d)
           IN  /\ key' = <<d, P>>
               /\ ret' = Returned("generate_key_pair", Ok(<<d, P>>))
    /\ pc' = "keyed"
    /\ UNCHANGED <<opt, sm3, inp, sig>>

(* sm2_base.generate_key_pair()                                            *)
GenerateKeyPair ==
    /\ pc = "start"
    /\ \E d \in 2 .. n - 2 :
           LET P == base_point_multiply(G, d)
           IN  /\ key' = <<d, P>>
               /\ ret' = Returned("generate_key_pair", Ok(<<d, P>>))
    /\ pc' = "keyed"
    /\ UNCHANGED <<opt, sm3, inp, sig>>

(* sm2_base.sign(d, message, z) up to its loop: e is computed.             *)
SignCall ==
    /\ pc = "keyed"
    /\ \E M \in Messages, Z \in ZValues, dg \in Digests :
           /\ Hashes(sm3, Z \o M, dg)
           /\ sm3' = Hashed(sm3, Z \o M, dg)
           /\ inp' = [M |-> M, Z |-> Z, e |-> int_from_bytes(dg)]
    /\ pc' = "signing"
    /\ ret' = NoCall
    /\ UNCHANGED <<opt, key, sig>>

(* One iteration of sign's loop: a nonce is drawn; the loop goes round     *)
(* again, returns (r, s), or the call raises.                              *)
SignLoop ==
    /\ pc = "signing"
    /\ \E k \in 2 .. n - 2 :
           LET out == base_sign_step(key[1], inp.e, k)
           IN  IF out = Continue
               THEN /\ ret' = [op |-> "sign", raised |-> "", value |-> <<"continue", k>>]
                    /\ UNCHANGED <<pc, sig>>
               ELSE IF IsExc(out)
               THEN /\ ret' = Returned("sign", Raise(out[1]))
                    /\ pc' = "done"
                    /\ UNCHANGED sig
               ELSE /\ ret' = Returned("sign", Ok(out))
                    /\ pc' = "signed"
                    /\ sig' = [M |-> inp.M, Z |-> inp.Z, e |-> inp.e,
                               r |-> out[1], s |-> out[2], k |-> k]
    /\ UNCHANGED <<opt, sm3, key, inp>>

(* sm2_base.verify(key's P, M, Z, r, s).  The digest is drawn from SM3     *)
(* once the range check has passed.                                        *)
VerifyCall(M, Z, r, s) ==
    /\ pc = "signed"
    /\ IF InRange(r, s)
       THEN \E dg \in Digests :
                /\ Hashes(sm3, Z \o M, dg)
                /\ sm3' = Hashed(sm3, Z \o M, dg)
                /\ inp' = [P |-> key[2], M |-> M, Z |-> Z, r |-> r, s |-> s,
                           e |-> int_from_bytes(dg)]
                /\ ret' = Returned("verify",
                                   base_verify(key[2], int_from_bytes(dg), r, s))
       ELSE /\ inp' = [P |-> key[2], M |-> M, Z |-> Z, r |-> r, s |-> s,
                       e |-> NotHashed]
            /\ ret' = Returned("verify", base_verify(key[2], NotHashed, r, s))
            /\ UNCHANGED sm3
    /\ pc' = "verified"
    /\ UNCHANGED <<opt, key, sig>>

(* The caller verifies the signature it holds: as signed, ...              *)
VerifySigned == pc = "signed" /\ VerifyCall(sig.M, sig.Z, sig.r, sig.s)
(* ... or with exactly one of message, Z, r, s replaced.                   *)
VerifyTamperedMessage ==
    /\ pc = "signed"
    /\ \E M \in Messages \ {sig.M} : VerifyCall(M, sig.Z, sig.r, sig.s)
VerifyTamperedZ ==
    /\ pc = "signed"
    /\ \E Z \in ZValues \ {sig.Z} : VerifyCall(sig.M, Z, sig.r, sig.s)
VerifyTamperedR ==
    /\ pc = "signed"
    /\ \E r \in SigInts \ {sig.r} : VerifyCall(sig.M, sig.Z, r, sig.s)
VerifyTamperedS ==
    /\ pc = "signed"
    /\ \E s \in SigInts \ {sig.s} : VerifyCall(sig.M, sig.Z, sig.r, s)

Next ==
    \/ GenerateKeyPair
    \/ SignCall
    \/ SignLoop
    \/ VerifySigned
    \/ VerifyTamperedS
    \/ VerifyTamperedR
    \/ VerifyTamperedMessage
    \/ VerifyTamperedZ

Spec == Init /\ [][Next]_vars

(* What the verified call replaced in the signature the caller holds.      *)
Changed == {f \in {"M", "Z", "r", "s"} : inp[f] # sig[f]}

(* C1: for every private key d in [2, n-2] with P = d.G, every Z, every    *)
(* message and every nonce the loop of sign draws, verify returns True     *)
(* for the (r, s) that sign returns.                                       *)
C1_SignVerifyRoundTrip ==
    (pc = "verified" /\ Changed = {}) => (ret.raised = "" /\ ret.value = TRUE)

C1_Witness ==
    /\ pc = "verified"
    /\ Changed = {}
    /\ sig.e >= n
    /\ ret.value = TRUE

(* C2 as claimed: verify returns False whenever exactly one of message,    *)
(* Z, r, s is replaced by a different value (granted that SM3 gives a      *)
(* replaced message or Z a digest that differs modulo n from the signed    *)
(* one).                                                                   *)
C2_TamperRejection ==
    (/\ pc = "verified"
     /\ Cardinality(Changed) = 1
     /\ Changed \subseteq {"M", "Z"} => inp.e % n # sig.e % n) =>
        (ret.raised = "" /\ ret.value = FALSE)

(* The nonce a pair (r, s) stands for under the private key d:             *)
(* s.G + (r + s).P = (s + (r + s).d).G                                     *)
NonceOf(d, r, s) == (s + (r + s) * d) % n

(* The pair (r, s) satisfies the signing relation for the digest e.        *)
SigningRelation(d, e, r, s) ==
    /\ InRange(r, s)
    /\ (r + s) % n # 0
    /\ LET kG == base_point_multiply(G, NonceOf(d, r, s))
       IN  kG # None /\ (e + kG[1]) % n = r

(* The second s that the nonce -k gives for the same r.                    *)
OtherS(d, r, s) == (-s - 2 * r * d * mod_inverse(1 + d, n)) % n

(* C2 as amended: with exactly one of message, Z, r, s replaced, verify    *)
(* returns False exactly when the digest of the replaced message or Z      *)
(* differs modulo n from the signed one, or the replaced r or s fails the  *)
(* signing relation; it returns True for s replaced by                     *)
(* (-s - 2rd/(1+d)) mod n when that is another value in range and          *)
(* r + s' is not 0 modulo n.                                               *)
C2_TamperRejectionAmended ==
    (pc = "verified" /\ Cardinality(Changed) = 1) =>
        /\ ret.raised = ""
        /\ Changed \subseteq {"M", "Z"} =>
               (ret.value = FALSE <=> inp.e % n # sig.e % n)
        /\ Changed \subseteq {"r", "s"} =>
               (ret.value = FALSE <=> ~SigningRelation(key[1], sig.e, inp.r, inp.s))
        /\ (/\ Changed = {"s"}
            /\ inp.s = OtherS(key[1], sig.r, sig.s)
            /\ inp.s # 0
            /\ (inp.r + inp.s) % n # 0) => ret.value = TRUE

C2_Witness ==
    /\ pc = "verified"
    /\ Changed = {"s"}
    /\ inp.s = OtherS(key[1], sig.r, sig.s)
    /\ ret.value = TRUE

---------------------------------------------------------------------------
(* SpecVerify: sm2_base.verify as a function of drawn inputs: any public   *)
(* key on the curve (or None), any integers r and s, any digest.           *)

VerifyInit ==
    /\ opt = Unloaded
    /\ sm3 = <<>>
    /\ key = <<>>
    /\ pc = "verify"
    /\ inp \in [P : PointInputs, M : {<<1>>}, Z : {<<1>>}, r : SigInts, s : SigInts,
                e : {NotHashed}]
    /\ sig = <<>>
    /\ ret = NoCall

VerifyAny ==
    /\ pc = "verify"
    /\ IF InRange(inp.r, inp.s)
       THEN \E dg \in Digests :
                /\ Hashes(sm3, inp.Z \o inp.M, dg)
                /\ sm3' = Hashed(sm3, inp.Z \o inp.M, dg)
                /\ inp' = [inp EXCEPT !.e = int_from_bytes(dg)]
                /\ ret' = Returned("verify",
                                   base_verify(inp.P, int_from_bytes(dg), inp.r, inp.s))
       ELSE /\ ret' = Returned("verify", base_verify(inp.P, NotHashed, inp.r, inp.s))
            /\ UNCHANGED <<sm3, inp>>
    /\ pc' = "verified"
    /\ UNCHANGED <<opt, key, sig>>

VerifyNext == VerifyAny

SpecVerify == VerifyInit /\ [][VerifyNext]_vars

(* C5: for a public key on the curve and any integers r and s, verify      *)
(* raises nothing and returns a boolean: False when r or s is outside      *)
(* [1, n-1], when (r + s) mod n = 0, and when s.G, t.P or their sum is the *)
(* identity; True only when (e + x1) mod n = r.                            *)
C5_VerifyTotal ==
    pc = "verified" =>
        /\ ret.raised = ""
        /\ ret.value \in BOOLEAN
        /\ ~InRange(inp.r, inp.s) => ret.value = FALSE
        /\ (inp.r + inp.s) % n = 0 => ret.value = FALSE
        /\ (InRange(inp.r, inp.s) /\ (inp.r + inp.s) % n # 0) =>
               LET sG == base_point_multiply(G, inp.s)
                   tP == base_point_multiply(inp.P, (inp.r + inp.s) % n)
                   x1y1 == base_point_add(sG, tP)
               IN  /\ (sG = None \/ tP = None \/ x1y1 = None) => ret.value = FALSE
                   /\ ret.value = TRUE => (inp.e + x1y1[1]) % n = inp.r

(* verify has met s.G + t.P = identity for a key on the curve.             *)
C5_Witness ==
    /\ pc = "verified"
    /\ inp.P \in CurvePoints
    /\ InRange(inp.r, inp.s)
    /\ (inp.r + inp.s) % n # 0
    /\ base_point_add(base_point_multiply(G, inp.s),
                      base_point_multiply(inp.P, (inp.r + inp.s) % n)) = None
    /\ ret.value = FALSE

---------------------------------------------------------------------------
(* sm2_optimized.py: calculate_z, sign, verify.  gtable is the G_TABLE of  *)
(* the loaded module.                                                      *)

(* A coordinate is written as CoordLen bytes (32 in the source).           *)
CoordLen == 2

(* The byte string calculate_z hashes:                                     *)
(* ENTLA || ID || a || b || Gx || Gy || Px || Py                           *)
calculate_z_data(id, public_key) ==
    to_bytes(Len(id) * ByteBits, 2) \o id
        \o to_bytes(a, CoordLen) \o to_bytes(b, CoordLen)
        \o to_bytes(Gx, CoordLen) \o to_bytes(Gy, CoordLen)
        \o to_bytes(public_key[1], CoordLen) \o to_bytes(public_key[2], CoordLen)

(* One iteration of sign's loop; (1 + d)^-1 is computed before the loop.   *)
opt_sign_step(gtable, d, e, k) ==
    LET multiplied(kG) ==
            IF kG = None THEN Continue
            ELSE IF IsExc(kG) THEN kG
            ELSE LET r == (e + kG[1]) % n
                     s == (mod_inverse(1 + d, n) * (k - r * d)) % n
                 IN  IF r = 0 \/ r + k = n THEN Continue
                     ELSE IF s = 0 THEN Continue ELSE <<r, s>>
    IN  IF mod_inverse_raises(1 + d, n) THEN ValueError
        ELSE multiplied(opt_point_multiply(gtable, G, k))

opt_verify(gtable, public_key, e, r, s) ==
    LET summed(x1y1) ==
            IF IsExc(x1y1) THEN Raise(x1y1[1])
            ELSE IF x1y1 = None THEN Ok(FALSE)
            ELSE Ok((e + x1y1[1]) % n = r)
        multiplied(sG, tP) ==
            IF IsExc(sG) THEN Raise(sG[1])
            ELSE IF IsExc(tP) THEN Raise(tP[1])
            ELSE IF sG = None \/ tP = None THEN Ok(FALSE)
            ELSE summed(opt_point_add(sG, tP))
    IN  IF ~InRange(r, s) THEN Ok(FALSE)
        ELSE IF (r + s) % n = 0 THEN Ok(FALSE)
        ELSE multiplied(opt_point_multiply(gtable, G, s),
                        opt_point_multiply(gtable, public_key, (r + s) % n))

---------------------------------------------------------------------------
(* sm2_misuse.py.  The module body is                                      *)
(* "from src.sm2_optimized import ..." and defs: importing it imports      *)
(* sm2_optimized.  e, e1, e2, e_prime are the digests the scenario         *)
(* computes and k the nonce it draws or is given.                          *)

import_sm2_misuse(o) == import_sm2_optimized(o)

(* M + b"_forged"                                                          *)
Forged(M) == M \o <<0>>

scenario1_reused_k(gtable, d, e1, e2, k) ==
    LET multiplied(kG) ==
            IF IsExc(kG) THEN Raise(kG[1])
            ELSE IF kG = None THEN Raise("TypeError")
            ELSE IF mod_inverse_raises(1 + d, n) THEN Raise("ValueError")
            ELSE LET x1 == kG[1]
                     r1 == (e1 + x1) % n
                     inv_1d == mod_inverse(1 + d, n)
                     s1 == (inv_1d * (k - r1 * d)) % n
                     r2 == (e2 + x1) % n
                     s2 == (inv_1d * (k - r2 * d)) % n
                     numerator == ((s1 - s2) * (e1 - e2)) % n
                     denominator == (s2 * r1 - s1 * r2) % n
                     recovered(d_recovered) == Ok(<<d_recovered, d_recovered = d>>)
                 IN  IF denominator = 0 THEN Ok(<<0, FALSE>>)
                     ELSE IF mod_inverse_raises(denominator, n) THEN Raise("ValueError")
                     ELSE recovered((numerator * mod_inverse(denominator, n)) % n)
    IN  multiplied(opt_point_multiply(gtable, G, k))

scenario2_fixed_k(gtable, d, e, e_prime, fixed_k) ==
    LET verified(r_prime, s_prime, valid) ==
            IF valid.raised # "" THEN valid
            ELSE Ok(<<<<r_prime, s_prime>>, valid.value>>)
        forged(r_prime, s_prime, P) ==
            IF IsExc(P) THEN Raise(P[1])
            ELSE verified(r_prime, s_prime,
                          opt_verify(gtable, P, e_prime, r_prime, s_prime))
        multiplied(kG) ==
            IF IsExc(kG) THEN Raise(kG[1])
            ELSE IF kG = None THEN Raise("TypeError")
            ELSE IF mod_inverse_raises(1 + d, n) THEN Raise("ValueError")
            ELSE LET r == (e + kG[1]) % n
                     inv_1d == mod_inverse(1 + d, n)
                     s == (inv_1d * (fixed_k - r * d)) % n
                     r_prime == (r + e_prime - e) % n
                     s_prime == (s + (r_prime - r) * inv_1d) % n
                 IN  forged(r_prime, s_prime, opt_point_multiply(gtable, G, d))
    IN  multiplied(opt_point_multiply(gtable, G, fixed_k))

(* scenario3_incorrect_Z from the signature (r, s) its sign(d, M, Z1)      *)
(* returned: e1 and e2 are the digests of Z1 || M and Z2 || M.             *)
scenario3_verifies(gtable, P, e1, e2, r, s) ==
    LET verified(invalid_verify, valid_verify) ==
            IF invalid_verify.raised # "" THEN invalid_verify
            ELSE IF valid_verify.raised # "" THEN valid_verify
            ELSE Ok(<<<<r, s>>, invalid_verify.value /\ ~valid_verify.value>>)
    IN  verified(opt_verify(gtable, P, e1, r, s), opt_verify(gtable, P, e2, r, s))

scenario4_malleable_signature(gtable, P, e, r, s) ==
    LET verified(s_prime, valid) ==
            IF valid.raised # "" THEN valid
            ELSE Ok(<<<<r, s_prime>>, valid.value>>)
    IN  verified((-s - r) % n, opt_verify(gtable, P, e, r, (-s - r) % n))

---------------------------------------------------------------------------
(* SpecMisuse: a key pair, a signature of sm2_base, and the scenarios of   *)
(* sm2_misuse called on them.  Each scenario call starts with              *)
(* "from src.sm2_misuse import ...".                                       *)

Identities == {<<1>>, <<2>>}

(* The table after sm3_hash(data) returned dg.                             *)
HashStep(tab, data, dg) == IF Hashes(tab, data, dg) THEN Hashed(tab, data, dg) ELSE tab

(* scenario1_reused_k(d, M1, M2, Z1, Z2)                                   *)
Scenario1 ==
    /\ pc = "keyed"
    /\ \E M1 \in Messages, M2 \in Messages, Z1 \in ZValues, Z2 \in ZValues :
           LET m == import_sm2_misuse(opt)
               args == [d |-> key[1], M1 |-> M1, M2 |-> M2, Z1 |-> Z1, Z2 |-> Z2]
           IN  /\ opt' = m.module
               /\ IF m.raised # ""
                  THEN /\ ret' = Returned("scenario1_reused_k", Raise(m.raised))
                       /\ inp' = args
                       /\ UNCHANGED sm3
                  ELSE \E k \in 2 .. n - 2, dg1 \in Digests, dg2 \in Digests :
                           LET t1 == Hashed(sm3, Z1 \o M1, dg1)
                               e1 == int_from_bytes(dg1)
                               e2 == int_from_bytes(dg2)
                               \* an exception is raised before Z2 || M2 is
                               \* hashed: mod_inverse(denominator, n) does
                               \* not raise, n is prime
                               returned(out) ==
                                   /\ sm3' = IF out.raised # "" THEN t1
                                             ELSE Hashed(t1, Z2 \o M2, dg2)
                                   /\ ret' = Returned("scenario1_reused_k", out)
                           IN  /\ Hashes(sm3, Z1 \o M1, dg1)
                               /\ Hashes(t1, Z2 \o M2, dg2)
                               /\ inp' = args @@ [k |-> k, e1 |-> e1, e2 |-> e2]
                               /\ returned(scenario1_reused_k(m.module.G_TABLE,
                                                              key[1], e1, e2, k))
    /\ pc' = "done"
    /\ UNCHANGED <<key, sig>>

(* scenario2_fixed_k(d, M, Z, fixed_k)                                     *)
Scenario2 ==
    /\ pc = "keyed"
    /\ \E M \in Messages, Z \in ZValues, fixed_k \in 2 .. n - 2 :
           LET m == import_sm2_misuse(opt)
               args == [d |-> key[1], M |-> M, Z |-> Z, fixed_k |-> fixed_k]
           IN  /\ opt' = m.module
               /\ IF m.raised # ""
                  THEN /\ ret' = Returned("scenario2_fixed_k", Raise(m.raised))
                       /\ inp' = args
                       /\ UNCHANGED sm3
                  ELSE \E dg \in Digests, dg_prime \in Digests :
                           LET t1 == Hashed(sm3, Z \o M, dg)
                               e == int_from_bytes(dg)
                               e_prime == int_from_bytes(dg_prime)
                               \* Z || M' is hashed once kG is unpacked and
                               \* (1 + d)^-1 computed
                               hashed(kG) ==
                                   sm3' = IF \/ IsExc(kG)
                                             \/ kG = None
                                             \/ mod_inverse_raises(1 + key[1], n)
                                          THEN t1
                                          ELSE Hashed(t1, Z \o Forged(M), dg_prime)
                           IN  /\ Hashes(sm3, Z \o M, dg)
                               /\ Hashes(t1, Z \o Forged(M), dg_prime)
                               /\ hashed(opt_point_multiply(m.module.G_TABLE, G, fixed_k))
                               /\ inp' = args @@ [e |-> e, e_prime |-> e_prime]
                               /\ ret' = Returned("scenario2_fixed_k",
                                             scenario2_fixed_k(m.module.G_TABLE,
                                                 key[1], e, e_prime, fixed_k))
    /\ pc' = "done"
    /\ UNCHANGED <<key, sig>>

(* scenario3_incorrect_Z(d, M, ID1, ID2): P = d.G, Z1 and Z2 by            *)
(* calculate_z, (r, s) by sign(d, M, Z1) with the nonce k its loop         *)
(* returns on, then the two calls of verify.                               *)
Scenario3 ==
    /\ pc = "keyed"
    /\ \E M \in Messages, ID1 \in Identities, ID2 \in Identities :
           LET m == import_sm2_misuse(opt)
               gt == m.module.G_TABLE
               args == [d |-> key[1], M |-> M, ID1 |-> ID1, ID2 |-> ID2]
               keyed(P) ==
                   IF IsExc(P) \/ P = None
                   THEN /\ ret' = Returned("scenario3_incorrect_Z",
                                      Raise(IF P = None THEN "TypeError" ELSE P[1]))
                        /\ inp' = args
                        /\ UNCHANGED sm3
                   ELSE \E Z1 \in Digests, Z2 \in Digests,
                           dg1 \in Digests, dg2 \in Digests, k \in 2 .. n - 2 :
                            LET t1 == HashStep(sm3, calculate_z_data(ID1, P), Z1)
                                t2 == HashStep(t1, Z1 \o M, dg1)
                                t3 == HashStep(t2, calculate_z_data(ID2, P), Z2)
                                t4 == HashStep(t3, Z2 \o M, dg2)
                                e1 == int_from_bytes(dg1)
                                e2 == int_from_bytes(dg2)
                                \* Z2 || M is hashed by the second verify
                                verified(invalid_verify) ==
                                    sm3' = IF invalid_verify.raised # "" THEN t3 ELSE t4
                                signed(rs) ==
                                    /\ rs # Continue
                                    /\ IF IsExc(rs)
                                       THEN /\ sm3' = t2
                                            /\ ret' = Returned("scenario3_incorrect_Z",
                                                          Raise(rs[1]))
                                       ELSE /\ verified(opt_verify(gt, P, e1, rs[1], rs[2]))
                                            /\ ret' = Returned("scenario3_incorrect_Z",
                                                          scenario3_verifies(gt, P, e1, e2,
                                                                             rs[1], rs[2]))
                            IN  /\ Hashes(sm3, calculate_z_data(ID1, P), Z1)
                                /\ Hashes(t1, Z1 \o M, dg1)
                                /\ Hashes(t2, calculate_z_data(ID2, P), Z2)
                                /\ Hashes(t3, Z2 \o M, dg2)
                                /\ inp' = args @@ [Z1 |-> Z1, Z2 |-> Z2,
                                                   e1 |-> e1, e2 |-> e2, k |-> k]
                                /\ signed(opt_sign_step(gt, key[1], e1, k))
           IN  /\ opt' = m.module
               /\ IF m.raised # ""
                  THEN /\ ret' = Returned("scenario3_incorrect_Z", Raise(m.raised))
                       /\ inp' = args
                       /\ UNCHANGED sm3
                  ELSE keyed(opt_point_multiply(gt, G, key[1]))
    /\ pc' = "done"
    /\ UNCHANGED <<key, sig>>

(* scenario4_malleable_signature(P, M, Z, r, s) on the signature signed:   *)
(* verify hashes Z || M again, the digest sign computed.                   *)
Scenario4 ==
    /\ pc = "signed"
    /\ LET m == import_sm2_misuse(opt)
       IN  /\ opt' = m.module
           /\ ret' = Returned("scenario4_malleable_signature",
                         IF m.raised # "" THEN Raise(m.raised)
                         ELSE scenario4_malleable_signature(m.module.G_TABLE,
                                  key[2], sig.e, sig.r, sig.s))
    /\ inp' = [P |-> key[2], M |-> sig.M, Z |-> sig.Z, r |-> sig.r, s |-> sig.s]
    /\ pc' = "done"
    /\ UNCHANGED <<sm3, key, sig>>

MisuseNext ==
    \/ GenerateKeyPair
    \/ SignCall
    \/ SignLoop
    \/ Scenario1
    \/ Scenario2
    \/ Scenario3
    \/ Scenario4

SpecMisuse == Init /\ [][MisuseNext]_vars

(* The denominator scenario1_reused_k computes for key d, digests e1, e2   *)
(* and nonce k.                                                            *)
S1Denominator(d, e1, e2, k) ==
    LET x1 == base_point_multiply(G, k)[1]
        inv_1d == mod_inverse(1 + d, n)
        r1 == (e1 + x1) % n
        s1 == (inv_1d * (k - r1 * d)) % n
        r2 == (e2 + x1) % n
        s2 == (inv_1d * (k - r2 * d)) % n
    IN  (s2 * r1 - s1 * r2) % n

(* C6: for every private key d, every shared nonce k in [2, n-2] and every *)
(* pair of digests e1, e2 with a non-zero denominator (s2.r1 - s1.r2) mod  *)
(* n, scenario1_reused_k returns (d, True).  (The original claim; the      *)
(* call raises instead.)                                                   *)
C6_S1Soundness ==
    ret.op = "scenario1_reused_k" =>
        /\ ret.raised = ""
        /\ S1Denominator(inp.d, inp.e1, inp.e2, inp.k) # 0 =>
               ret.value = <<inp.d, TRUE>>

(* C7: for every valid signature (r, s) on (P, M, Z),                      *)
(* scenario4_malleable_signature returns ((r, s'), True) with              *)
(* s' = (-s - r) mod n, and s' differs from s whenever 2s + r is not       *)
(* 0 mod n.  (The original claim; the call raises instead.)                *)
C7_S4Soundness ==
    ret.op = "scenario4_malleable_signature" =>
        /\ ret.raised = ""
        /\ ret.value = <<<<inp.r, (-inp.s - inp.r) % n>>, TRUE>>
        /\ (2 * inp.s + inp.r) % n # 0 => ret.value[1][2] # inp.s

(* C8: for every private key d, fixed nonce k in [2, n-2], message M and   *)
(* Z, scenario2_fixed_k returns ((r', s'), True): the forged signature on  *)
(* M || "_forged" verifies under d.G.  (The original claim; the call       *)
(* raises instead.)                                                        *)
C8_S2ForgedVerifies ==
    ret.op = "scenario2_fixed_k" =>
        /\ ret.raised = ""
        /\ ret.value[2] = TRUE

(* C9: for every key pair, message M and identities ID1 # ID2, the         *)
(* signature made with Z(ID1) is accepted under Z(ID1) and rejected under  *)
(* Z(ID2), so scenario3_incorrect_Z returns success = True.  (The original *)
(* claim; the call raises instead.)                                        *)
C9_S3ZBinding ==
    (ret.op = "scenario3_incorrect_Z" /\ inp.ID1 # inp.ID2) =>
        /\ ret.raised = ""
        /\ ret.value[2] = TRUE

---------------------------------------------------------------------------
(* satoshi_forgery.py                                                      *)

(* The bytes literals of the file, by line, and whether each holds only    *)
(* ASCII characters: the compiler rejects a bytes literal that does not,   *)
(* and then no statement of the file runs.                                 *)
ForgeryBytesLiterals == (79 :> TRUE) @@ (116 :> FALSE)

compile_satoshi_forgery ==
    IF \A line \in DOMAIN ForgeryBytesLiterals : ForgeryBytesLiterals[line]
    THEN "" ELSE "SyntaxError"

(* import src.satoshi_forgery: the file is compiled, then its body runs,   *)
(* which is "from src.sm2_optimized import ..." and defs.                  *)
import_satoshi_forgery(o) ==
    IF compile_satoshi_forgery # ""
    THEN [raised |-> compile_satoshi_forgery, module |-> o]
    ELSE import_sm2_optimized(o)

(* u and v of forge_satoshi_signature, both below n; the public key, whose *)
(* coordinates are above p and not on the curve.                           *)
forge_u == 3
forge_v == 9
SATOSHI_PUBLIC_KEY == <<17, 20>>

(* find_z_for_hash tries NumCandidates values "Z_candidate_<i>" (10000 in  *)
(* the source) and falls back to a fixed byte string.                      *)
NumCandidates == 2
Z_candidate(i) == <<3, i>>
SpecialZ == <<3, 3, 3>>
ForgeryZ == {Z_candidate(i) : i \in 0 .. NumCandidates - 1} \cup {SpecialZ}

(* H is SM3 on the byte strings the call hashes.                           *)
FoundAt(H, target_hash, message) ==
    {i \in 0 .. NumCandidates - 1 : H[Z_candidate(i) \o message] = target_hash}

First(S) == CHOOSE i \in S : \A j \in S : i <= j

find_z_for_hash(H, target_hash, message) ==
    IF FoundAt(H, target_hash, message) = {} THEN SpecialZ
    ELSE Z_candidate(First(FoundAt(H, target_hash, message)))

(* The byte strings find_z_for_hash has hashed when it returns.            *)
find_z_hashed(H, target_hash, message) ==
    LET hits == FoundAt(H, target_hash, message)
        last == IF hits = {} THEN NumCandidates - 1 ELSE First(hits)
    IN  {Z_candidate(i) \o message : i \in 0 .. last}

forge_satoshi_signature(gtable, H, message, satoshi_pubkey) ==
    LET summed(x1y1) ==
            IF IsExc(x1y1) THEN Raise(x1y1[1])
            ELSE IF x1y1 = None THEN Raise("ValueError")
            ELSE LET x1 == x1y1[1]
                     r == x1 % n
                     e == (r - x1) % n
                     e_bytes == to_bytes(e, HashLen)
                     Z == find_z_for_hash(H, e_bytes, message)
                 IN  IF mod_inverse_raises(forge_v, n) THEN Raise("ValueError")
                     ELSE Ok(<<r, (mod_inverse(forge_v, n)
                                      * (forge_u + r * forge_v)) % n, Z>>)
        multiplied(uG, vP) ==
            IF IsExc(uG) THEN Raise(uG[1])
            ELSE IF IsExc(vP) THEN Raise(vP[1])
            ELSE summed(opt_point_add(uG, vP))
    IN  multiplied(opt_point_multiply(gtable, G, forge_u),
                   opt_point_multiply(gtable, satoshi_pubkey, forge_v))

(* verify_forgery(message, Z, r, s, pubkey) with e the digest of           *)
(* Z || message: statement for statement the verify of sm2_optimized.      *)
verify_forgery(gtable, pubkey, e, r, s) == opt_verify(gtable, pubkey, e, r, s)

---------------------------------------------------------------------------
(* SpecForgery: forge_satoshi_signature and verify_forgery on drawn        *)
(* inputs.  Each call starts with "from src.satoshi_forgery import ...".   *)

ForgeryKeys == CurvePoints \cup {SATOSHI_PUBLIC_KEY}

ForgeryInit ==
    /\ opt = Unloaded
    /\ sm3 = <<>>
    /\ key = <<>>
    /\ pc = "forgery"
    /\ inp \in [message : Messages, changed : Messages, pubkey : ForgeryKeys,
                Z : ForgeryZ, r : SigInts, s : SigInts]
    /\ sig = <<>>
    /\ ret = NoCall

(* The byte strings a forgery and a verification of verified can hash.     *)
ForgeryData(message, verified) ==
    {Z \o message : Z \in ForgeryZ} \cup {Z \o verified : Z \in ForgeryZ}

(* r, s, Z = forge_satoshi_signature(inp.message, inp.pubkey), then        *)
(* verify_forgery(verified, Z, r, s, inp.pubkey).                          *)
ForgeThenVerify(op, verified) ==
    /\ LET m == import_satoshi_forgery(opt)
       IN  /\ opt' = m.module
           /\ IF m.raised # ""
              THEN /\ ret' = Returned(op, Raise(m.raised))
                   /\ UNCHANGED <<sm3, sig>>
              ELSE \E H \in [ForgeryData(inp.message, verified) -> Digests] :
                       LET forged(f) ==
                               LET r == f.value[1]
                                   s == f.value[2]
                                   Z == f.value[3]
                                   hashed ==
                                       IF f.raised # "" THEN {}
                                       ELSE find_z_hashed(H, to_bytes(0, HashLen),
                                                          inp.message)
                                            \cup (IF InRange(r, s)
                                                  THEN {Z \o verified} ELSE {})
                               IN  /\ \A data \in hashed : Hashes(sm3, data, H[data])
                                   /\ sm3' = [data \in DOMAIN sm3 \cup hashed |->
                                                 IF data \in DOMAIN sm3
                                                 THEN sm3[data] ELSE H[data]]
                                   /\ sig' = IF f.raised # "" THEN sig
                                             ELSE [r |-> r, s |-> s, Z |-> Z]
                                   /\ ret' = Returned(op,
                                          IF f.raised # "" THEN f
                                          ELSE verify_forgery(m.module.G_TABLE,
                                                   inp.pubkey,
                                                   int_from_bytes(H[Z \o verified]),
                                                   r, s))
                       IN  forged(forge_satoshi_signature(m.module.G_TABLE, H,
                                                          inp.message, inp.pubkey))
    /\ pc' = "done"
    /\ UNCHANGED <<key, inp>>

ForgeAndVerify ==
    /\ pc = "forgery"
    /\ ForgeThenVerify("forge_then_verify", inp.message)

ForgeAndVerifyChanged ==
    /\ pc = "forgery"
    /\ inp.changed # inp.message
    /\ ForgeThenVerify("forge_then_verify_changed", inp.changed)

(* verify_forgery(inp.message, inp.Z, inp.r, inp.s, inp.pubkey)            *)
VerifyForgery ==
    /\ pc = "forgery"
    /\ LET m == import_satoshi_forgery(opt)
       IN  /\ opt' = m.module
           /\ IF m.raised # ""
              THEN /\ ret' = Returned("verify_forgery", Raise(m.raised))
                   /\ UNCHANGED sm3
              ELSE IF ~InRange(inp.r, inp.s)
              THEN /\ ret' = Returned("verify_forgery", Ok(FALSE))
                   /\ UNCHANGED sm3
              ELSE \E dg \in Digests :
                       /\ Hashes(sm3, inp.Z \o inp.message, dg)
                       /\ sm3' = Hashed(sm3, inp.Z \o inp.message, dg)
                       /\ ret' = Returned("verify_forgery",
                                     verify_forgery(m.module.G_TABLE, inp.pubkey,
                                         int_from_bytes(dg), inp.r, inp.s))
    /\ pc' = "done"
    /\ UNCHANGED <<key, inp, sig>>

(* forge_satoshi_signature(inp.message, inp.pubkey)                        *)
ForgeSatoshiSignature ==
    /\ pc = "forgery"
    /\ LET m == import_satoshi_forgery(opt)
       IN  /\ opt' = m.module
           /\ IF m.raised # ""
              THEN /\ ret' = Returned("forge_satoshi_signature", Raise(m.raised))
                   /\ UNCHANGED sm3
              ELSE \E H \in [ForgeryData(inp.message, inp.message) -> Digests] :
                       LET forged(f) ==
                               LET hashed ==
                                       IF f.raised # "" THEN {}
                                       ELSE find_z_hashed(H, to_bytes(0, HashLen),
                                                          inp.message)
                               IN  /\ \A data \in hashed : Hashes(sm3, data, H[data])
                                   /\ sm3' = [data \in DOMAIN sm3 \cup hashed |->
                                                 IF data \in DOMAIN sm3
                                                 THEN sm3[data] ELSE H[data]]
                                   /\ ret' = Returned("forge_satoshi_signature", f)
                       IN  forged(forge_satoshi_signature(m.module.G_TABLE, H,
                                                          inp.message, inp.pubkey))
    /\ pc' = "done"
    /\ UNCHANGED <<key, inp, sig>>

ForgeryNext ==
    \/ ForgeAndVerify
    \/ ForgeAndVerifyChanged
    \/ VerifyForgery
    \/ ForgeSatoshiSignature

SpecForgery == ForgeryInit /\ [][ForgeryNext]_vars

(* C10: verify_forgery applied to the (r, s, Z) forge_satoshi_signature    *)
(* returned for the message and public key returns True if and only if     *)
(* find_z_for_hash found a Z (it did not fall back to the fixed string),   *)
(* and False when the message is changed after forging.  (The original     *)
(* claim; the calls raise instead.)                                        *)
C10_ForgeryOutcome ==
    /\ ret.op = "forge_then_verify" =>
           /\ ret.raised = ""
           /\ ret.value = (sig.Z # SpecialZ)
    /\ ret.op = "forge_then_verify_changed" =>
           /\ ret.raised = ""
           /\ ret.value = FALSE

---------------------------------------------------------------------------
(* Key generation.                                                         *)

(* k.P as the sum of k copies of P.                                        *)
RECURSIVE Times(_, _)
Times(pt, k) == IF k = 0 THEN None ELSE base_point_add(Times(pt, k - 1), pt)

(* C13: every pair (d, P) generate_key_pair returns has 1 < d < n - 1,     *)
(* P = d.G, P not the identity and P on the curve.                         *)
C13_KeyGeneration ==
    ret.op = "generate_key_pair" =>
        /\ ret.raised = ""
        /\ 1 < ret.value[1] /\ ret.value[1] < n - 1
        /\ ret.value[2] = Times(G, ret.value[1])
        /\ ret.value[2] # None
        /\ OnCurve(ret.value[2])
        /\ key = ret.value

C13_Witness ==
    /\ ret.op = "generate_key_pair"
    /\ ret.value[1] = n - 2
    /\ ret.value[2] = <<10, 5>>

(* C11: forge_satoshi_signature returns an ordinary (r, s, Z) only with a  *)
(* Z that find_z_for_hash found among its candidates (one whose digest     *)
(* with the message is the target); when none is found the outcome is the  *)
(* error PreimageNotFound.  (The original claim; the call raises           *)
(* something else instead.)                                                *)
C11_PreimageFailureReported ==
    ret.op = "forge_satoshi_signature" =>
        \/ ret.raised \in {"PreimageNotFound", "ValueError"}
        \/ /\ ret.raised = ""
           /\ ret.value[3] \in ForgeryZ \ {SpecialZ}
           /\ sm3[ret.value[3] \o inp.message] = to_bytes(0, HashLen)

---------------------------------------------------------------------------
(* The initialisation of sm2_optimized.                                    *)

(* C14: once sm2_optimized has been imported the module is loaded and      *)
(* G_TABLE holds TableSize points, entry i being 2^i.G.  (The original     *)
(* claim; the import raises instead.)                                      *)
C14_Initialisation ==
    opt.status # "unloaded" =>
        /\ opt.status = "loaded"
        /\ Len(opt.G_TABLE) = TableSize
        /\ \A i \in 1 .. TableSize :
               opt.G_TABLE[i] = base_point_multiply(G, Pow2(i - 1))

---------------------------------------------------------------------------
(* SpecInterop: a key pair of sm2_base, then a signature of one            *)
(* implementation verified by the other (tests/test_all.py,                *)
(* test_consistency).                                                      *)

(* verify_opt(P, M, Z, r, s) on the signature sm2_base.sign returned: it   *)
(* hashes Z || M again.                                                    *)
OptVerifySigned ==
    /\ pc = "signed"
    /\ LET m == import_sm2_optimized(opt)
       IN  /\ opt' = m.module
           /\ ret' = Returned("sign_base, verify_opt",
                         IF m.raised # "" THEN Raise(m.raised)
                         ELSE opt_verify(m.module.G_TABLE, key[2],
                                         sig.e, sig.r, sig.s))
    /\ inp' = [P |-> key[2], M |-> sig.M, Z |-> sig.Z, r |-> sig.r, s |-> sig.s]
    /\ pc' = "done"
    /\ UNCHANGED <<sm3, key, sig>>

(* r, s = sign_opt(d, M, Z) with the nonce k its loop returns on, then     *)
(* verify_base(P, M, Z, r, s).                                             *)
OptSignBaseVerify ==
    /\ pc = "keyed"
    /\ \E M \in Messages, Z \in ZValues :
           LET m == import_sm2_optimized(opt)
               args == [d |-> key[1], P |-> key[2], M |-> M, Z |-> Z]
           IN  /\ opt' = m.module
               /\ IF m.raised # ""
                  THEN /\ ret' = Returned("sign_opt, verify_base", Raise(m.raised))
                       /\ inp' = args
                       /\ UNCHANGED sm3
                  ELSE \E dg \in Digests, k \in 2 .. n - 2 :
                           LET e == int_from_bytes(dg)
                               signed(rs) ==
                                   /\ rs # Continue
                                   /\ inp' = args @@ [e |-> e, k |-> k, rs |-> rs]
                                   /\ ret' = Returned("sign_opt, verify_base",
                                                 IF IsExc(rs) THEN Raise(rs[1])
                                                 ELSE base_verify(key[2], e,
                                                                  rs[1], rs[2]))
                           IN  /\ Hashes(sm3, Z \o M, dg)
                               /\ sm3' = Hashed(sm3, Z \o M, dg)
                               /\ signed(opt_sign_step(m.module.G_TABLE, key[1], e, k))
    /\ pc' = "done"
    /\ UNCHANGED <<key, sig>>

InteropNext ==
    \/ GenerateKeyPair
    \/ SignCall
    \/ SignLoop
    \/ OptVerifySigned
    \/ OptSignBaseVerify

SpecInterop == Init /\ [][InteropNext]_vars

(* C12: for every key pair, message and Z, a signature returned by         *)
(* sm2_base.sign is accepted by sm2_optimized.verify and a signature       *)
(* returned by sm2_optimized.sign is accepted by sm2_base.verify.  (The    *)
(* original claim; the calls raise instead.)                               *)
C12_Interoperate ==
    ret.op \in {"sign_base, verify_opt", "sign_opt, verify_base"} =>
        /\ ret.raised = ""
        /\ ret.value = TRUE

====
